---- MODULE Spec2Model ----
(***************************************************************************)
(* A model of src/dash/app.py: the startup pipeline (load, normalise,      *)
(* explode, geo-join, rank, quarter axis, layout) and the update_map       *)
(* callback wired to the three widgets.                                    *)
(*                                                                         *)
(* Text is a sequence of characters (one-character strings; a non-ASCII    *)
(* character is written as its code point, "U+00E1").  A missing text cell *)
(* is NaN, a missing number is NaNf, a missing timestamp is NaT, Python's  *)
(* None is None.  Data frames are sequences of records (rows, in order).   *)
(***************************************************************************)
EXTENDS Integers, Sequences, FiniteSets, TLC

VARIABLES
    files,              \* the three CSV files as read_csv returns them
    pc,                 \* position of the module-level script / the server
    error,              \* the exception that aborted startup, or "none"
    df,                 \* sample rows
    cities,             \* gazetteer rows
    merged,             \* joined rows
    counts,             \* value_counts(): substances in rank order, with counts
    top_substances,
    sorted_substances,
    quarter_steps,
    marks,
    substance,          \* widget values (client side)
    q_idx,
    all_time,
    fig,                \* callback outputs
    q_label,
    q_disabled,
    page_load,          \* the first callback's inputs and outputs; whether others followed
    ranking             \* the ranking routine applied to drawn inputs (SpecRank)

vars == <<files, pc, error, df, cities, merged, counts, top_substances,
          sorted_substances, quarter_steps, marks, substance, q_idx, all_time,
          fig, q_label, q_disabled, page_load, ranking>>

(***************************************************************************)
(* Bounds of the model.                                                    *)
(***************************************************************************)
\* most sample records in the two sample files together
MaxRows == 2
\* the configured K; 50 in the source, scaled so that K+1 distinct substances exist
TOP_N_SUBSTANCES == 1
\* SpecRank: largest K and largest count drawn
MaxK == 2
MaxCount == 3

RADIUS == 25

(***************************************************************************)
(* Missing values.                                                         *)
(***************************************************************************)
NaN == <<"NaN">>
NaNf == -999
NaT == [nat |-> TRUE]
None == <<"None">>

isna(x) == x = NaN
isnaf(x) == x = NaNf
isnat(x) == "nat" \in DOMAIN x

(***************************************************************************)
(* Sequences.                                                              *)
(***************************************************************************)
Range(s) == {s[i] : i \in 1..Len(s)}

RECURSIVE Flatten(_)
Flatten(ss) == IF ss = <<>> THEN <<>> ELSE Head(ss) \o Flatten(Tail(ss))

RECURSIVE SumSeq(_)
SumSeq(s) == IF s = <<>> THEN 0 ELSE Head(s) + SumSeq(Tail(s))

\* lexicographic order on sequences of integers (Python tuple / str comparison)
RECURSIVE LexLess(_, _)
LexLess(a, b) ==
    IF b = <<>> THEN FALSE
    ELSE IF a = <<>> THEN TRUE
    ELSE IF Head(a) # Head(b) THEN Head(a) < Head(b)
    ELSE LexLess(Tail(a), Tail(b))

\* insert x after every element whose key is not greater: a stable insertion
RECURSIVE InsertByKey(_, _, _)
InsertByKey(s, x, key) ==
    IF s = <<>> THEN <<x>>
    ELSE IF LexLess(key[x], key[Head(s)]) THEN <<x>> \o s
    ELSE <<Head(s)>> \o InsertByKey(Tail(s), x, key)

\* sorted(s, key=...): stable, ascending in key
RECURSIVE StableSort(_, _)
StableSort(s, key) ==
    IF s = <<>> THEN <<>>
    ELSE InsertByKey(StableSort(SubSeq(s, 1, Len(s) - 1), key), s[Len(s)], key)

\* the orders an unstable sort of s, ascending in key, may produce
SortOrders(s, key) ==
    {p \in [1..Len(s) -> 1..Len(s)] :
        /\ \A i, j \in 1..Len(s) : i # j => p[i] # p[j]
        /\ \A i \in 1..Len(s) - 1 : ~LexLess(key[s[p[i + 1]]], key[s[p[i]]])}

Permute(s, p) == [i \in 1..Len(s) |-> s[p[i]]]

\* drop_duplicates / unique: the first occurrence of each key, in order
RECURSIVE DropDuplicates(_, _, _)
DropDuplicates(s, keyOf, seen) ==
    IF s = <<>> THEN <<>>
    ELSE IF keyOf[Head(s)] \in seen THEN DropDuplicates(Tail(s), keyOf, seen)
    ELSE <<Head(s)>> \o DropDuplicates(Tail(s), keyOf, seen \cup {keyOf[Head(s)]})

(***************************************************************************)
(* Characters.                                                             *)
(***************************************************************************)
Upper == <<"A", "B", "C", "D", "E", "F", "G", "H", "I", "J", "K", "L", "M",
           "N", "O", "P", "Q", "R", "S", "T", "U", "V", "W", "X", "Y", "Z">>
Lowercase == <<"a", "b", "c", "d", "e", "f", "g", "h", "i", "j", "k", "l", "m",
               "n", "o", "p", "q", "r", "s", "t", "u", "v", "w", "x", "y", "z">>
\* code point order of the characters the model's texts are written in
CodePoints == <<"\t", " ", "'", ",", "[", "]">> \o Upper \o Lowercase
              \o <<"U+00E1", "U+0301">>

ord(c) == CHOOSE i \in 1..Len(CodePoints) : CodePoints[i] = c

isspace(c) == c \in {" ", "\t"}

lower_char(c) ==
    IF \E i \in 1..Len(Upper) : Upper[i] = c
    THEN Lowercase[CHOOSE i \in 1..Len(Upper) : Upper[i] = c]
    ELSE c

\* unicodedata.normalize("NFKD", c): a-acute decomposes to a + combining acute
nfkd_char(c) == IF c = "U+00E1" THEN <<"a", "U+0301">> ELSE <<c>>

combining(c) == c = "U+0301"

(***************************************************************************)
(* str methods and the regular expressions of the source.                  *)
(***************************************************************************)
RECURSIVE lstrip(_)
lstrip(s) == IF s # <<>> /\ isspace(Head(s)) THEN lstrip(Tail(s)) ELSE s

RECURSIVE rstrip(_)
rstrip(s) ==
    IF s # <<>> /\ isspace(s[Len(s)]) THEN rstrip(SubSeq(s, 1, Len(s) - 1)) ELSE s

strip(s) == rstrip(lstrip(s))

lower(s) == [i \in 1..Len(s) |-> lower_char(s[i])]

nfkd(s) == Flatten([i \in 1..Len(s) |-> nfkd_char(s[i])])

remove_combining(s) == SelectSeq(s, LAMBDA c : ~combining(c))

\* re.sub(r"\s+", " ", s)
RECURSIVE collapse_ws(_)
collapse_ws(s) ==
    IF s = <<>> THEN <<>>
    ELSE IF isspace(Head(s)) THEN <<" ">> \o collapse_ws(lstrip(s))
    ELSE <<Head(s)>> \o collapse_ws(Tail(s))

COUNTY == <<"c", "o", "u", "n", "t", "y">>

\* str.replace(r"\s+county$", "", regex=True)
strip_county(s) ==
    LET n == Len(s) - Len(COUNTY)
    IN  IF n >= 1 /\ SubSeq(s, n + 1, Len(s)) = COUNTY /\ isspace(s[n])
        THEN rstrip(SubSeq(s, 1, n))
        ELSE s

normalize_text(s) ==
    IF isna(s) THEN <<>>
    ELSE LET t == strip(s)
         IN  IF lower(t) = <<"n", "a", "n">> THEN <<>>
             ELSE lower(collapse_ws(remove_combining(nfkd(t))))

\* str(x) for a text of the model (f-string interpolation)
RECURSIVE str(_)
str(s) == IF s = None THEN "None"
          ELSE IF s = <<>> THEN ""
          ELSE Head(s) \o str(Tail(s))

(***************************************************************************)
(* ast.literal_eval on the list literals the sample files hold:            *)
(* "[" item ("," item)* [","] "]" with single-quoted items and optional    *)
(* blanks.  Any other text of the model is no Python literal: it raises.   *)
(***************************************************************************)
RECURSIVE skip_ws(_, _)
skip_ws(x, i) == IF i <= Len(x) /\ isspace(x[i]) THEN skip_ws(x, i + 1) ELSE i

RECURSIVE find_quote(_, _)
find_quote(x, i) ==
    IF i > Len(x) THEN 0 ELSE IF x[i] = "'" THEN i ELSE find_quote(x, i + 1)

Raised == [ok |-> FALSE, value |-> <<>>]

RECURSIVE parse_items(_, _, _)
parse_items(x, i, acc) ==
    IF i > Len(x) THEN Raised
    ELSE IF x[i] = "]"
         THEN IF skip_ws(x, i + 1) > Len(x) THEN [ok |-> TRUE, value |-> acc] ELSE Raised
    ELSE IF x[i] # "'" THEN Raised
    ELSE LET j == find_quote(x, i + 1)
             k == skip_ws(x, j + 1)
         IN  IF j = 0 \/ k > Len(x) THEN Raised
             ELSE IF x[k] = ","
                  THEN parse_items(x, skip_ws(x, k + 1), Append(acc, SubSeq(x, i + 1, j - 1)))
             ELSE IF x[k] = "]"
                  THEN parse_items(x, k, Append(acc, SubSeq(x, i + 1, j - 1)))
             ELSE Raised

literal_eval(x) ==
    LET i == skip_ws(x, 1)
    IN  IF i <= Len(x) /\ x[i] = "[" THEN parse_items(x, skip_ws(x, i + 1), <<>>)
        ELSE Raised

to_list(x) ==
    IF isna(x) THEN <<>>
    ELSE IF literal_eval(x).ok THEN literal_eval(x).value
    ELSE <<x>>

(***************************************************************************)
(* Timestamps.                                                             *)
(***************************************************************************)
Timestamp(y, m, d) == [year |-> y, month |-> m, day |-> d]

days_in_month(y, m) ==
    IF m = 2 THEN (IF y % 4 = 0 /\ (y % 100 # 0 \/ y % 400 = 0) THEN 29 ELSE 28)
    ELSE IF m \in {4, 6, 9, 11} THEN 30 ELSE 31

\* pd.to_datetime(cell, errors="coerce"): a cell is "y-m-d" (its three numbers)
\* or some other text
to_datetime(cell) ==
    IF /\ "ymd" \in DOMAIN cell
       /\ cell.ymd[2] \in 1..12
       /\ cell.ymd[3] \in 1..days_in_month(cell.ymd[1], cell.ymd[2])
    THEN Timestamp(cell.ymd[1], cell.ymd[2], cell.ymd[3])
    ELSE NaT

\* .dt.to_period("Q").dt.start_time
quarter_start_of(ts) == Timestamp(ts.year, 3 * ((ts.month - 1) \div 3) + 1, 1)

ts_key(ts) == <<ts.year, ts.month, ts.day>>

\* a faulty variant: the month in place of the quarter
quarter_label_month(ts) == ToString(ts.year) \o " Q" \o ToString(ts.month)

quarter_label(ts) ==
    LET q == ((ts.month - 1) \div 3) + 1
    IN  ToString(ts.year) \o " Q" \o ToString(q)

(***************************************************************************)
(* The input files the model's runs start from.                            *)
(***************************************************************************)
ADA == <<"A", "D", "A">>
ADA_COUNTY == <<" ", "A", "d", "a", " ", " ", "C", "o", "u", "n", "t", "y">>
ADA_ACUTE == <<"A", "d", "U+00E1">>
BO == <<"B", "o">>
ZED == <<"Z", "e", "d">>
OK == <<"O", "K">>
OK_BLANK == <<"o", "k", " ">>
FENTANYL == <<"F", "e", "n", "t", "a", "n", "y", "l">>
FENTANYL_NITAZENE ==
    <<"[", "'">> \o FENTANYL \o <<"'", ",", " ", "'", "n", "i", "t", "a", "z", "e", "n", "e", "'", "]">>
NITAZENE_RAW == <<"N", "i", "t", "a", "z", "e", "n", "e", " ">>
EMPTY_LIST == <<"[", "]">>

Date(y, m, d) == [ymd |-> <<y, m, d>>]
NotADate == [text |-> <<"n", "/", "a">>]

Sample(c, s, d, subs) == [city |-> c, state |-> s, sample_date |-> d, substances |-> subs]

SampleRecords ==
    { Sample(ADA, OK, Date(2026, 11, 5), FENTANYL_NITAZENE),
      Sample(ADA_COUNTY, OK_BLANK, Date(2026, 8, 5), FENTANYL),
      Sample(BO, OK, Date(2025, 2, 1), NITAZENE_RAW),
      Sample(ZED, OK, Date(2026, 8, 5), FENTANYL),
      Sample(ADA, OK, Date(2025, 2, 10), NaN),
      Sample(ADA, OK, NotADate, FENTANYL),
      Sample(ADA, NaN, Date(2026, 12, 31), EMPTY_LIST) }

City(c, s, la, lo, p) ==
    [city |-> c, state_name |-> s, lat |-> la, lng |-> lo, population |-> p]
CityNoPop(c, s, la, lo) == [city |-> c, state_name |-> s, lat |-> la, lng |-> lo]

Gazetteers ==
    { [has_population |-> TRUE,
       rows |-> << City(ADA, OK, 34, -96, 5), City(ADA_ACUTE, OK_BLANK, 35, -97, 9),
                   City(BO, OK, NaNf, NaNf, 1) >>],
      [has_population |-> FALSE,
       rows |-> << CityNoPop(ADA, OK, 34, -96), CityNoPop(ADA_ACUTE, OK_BLANK, 35, -97),
                   CityNoPop(BO, OK, NaNf, 36) >>],
      [has_population |-> TRUE,
       rows |-> << City(ADA, OK, 34, -96, 5), City(ADA, OK, 35, -97, 5),
                   City(BO, OK, 36, -95, NaNf) >>] }

SeqsUpTo(S, n) == UNION {[1..k -> S] : k \in 0..n}

EmptyFig == [lat |-> <<>>, lon |-> <<>>, z |-> <<>>, radius |-> RADIUS, name |-> ""]

\* the values every variable of the script has before the script assigns it
Unset ==
    /\ error = "none"
    /\ df = <<>>
    /\ cities = <<>>
    /\ merged = <<>>
    /\ counts = <<>>
    /\ top_substances = <<>>
    /\ sorted_substances = <<>>
    /\ quarter_steps = <<>>
    /\ marks = <<>>
    /\ substance = None
    /\ q_idx = 0
    /\ all_time = <<>>
    /\ fig = EmptyFig
    /\ q_label = ""
    /\ q_disabled = FALSE
    /\ page_load = [loaded |-> FALSE]

Init ==
    /\ files \in [has_sample_date : BOOLEAN,
                  streetsafe : SeqsUpTo(SampleRecords, MaxRows),
                  uscities : Gazetteers]
    /\ pc = "load"
    /\ Unset
    /\ ranking = [pc |-> "off"]

(***************************************************************************)
(* Lines 51-65: read, concatenate, parse the dates, drop the unparsable,   *)
(* bucket by quarter.                                                      *)
(***************************************************************************)
with_datetime(rows) ==
    [i \in 1..Len(rows) |->
        [city |-> rows[i].city, state |-> rows[i].state,
         sample_date |-> rows[i].sample_date, substances |-> rows[i].substances,
         sample_datetime |-> to_datetime(rows[i].sample_date)]]

with_quarter_start(rows) ==
    [i \in 1..Len(rows) |->
        [city |-> rows[i].city, state |-> rows[i].state,
         sample_date |-> rows[i].sample_date, substances |-> rows[i].substances,
         sample_datetime |-> rows[i].sample_datetime,
         quarter_start |-> quarter_start_of(rows[i].sample_datetime)]]

load_streetsafe(rows) ==
    with_quarter_start(
        SelectSeq(with_datetime(rows), LAMBDA r : ~isnat(r.sample_datetime)))

LoadStreetsafe ==
    /\ pc = "load"
    /\ IF ~files.has_sample_date
       THEN /\ error' = "KeyError"
            /\ pc' = "fatal"
            /\ df' = df
       ELSE /\ df' = load_streetsafe(files.streetsafe)
            /\ pc' = "prep"
            /\ error' = error
    /\ UNCHANGED <<files, cities, merged, counts, top_substances, sorted_substances,
                   quarter_steps, marks, substance, q_idx, all_time, fig, q_label,
                   q_disabled, page_load, ranking>>

(***************************************************************************)
(* Lines 70-77: parse the substances field, explode, normalise.            *)
(***************************************************************************)
\* DataFrame.explode: one row per element, one row holding NaN for an empty list
explode_row(r) ==
    LET l == to_list(r.substances)
        one(x) == [city |-> r.city, state |-> r.state, sample_date |-> r.sample_date,
                   substances |-> x, sample_datetime |-> r.sample_datetime,
                   quarter_start |-> r.quarter_start]
    IN  IF l = <<>> THEN <<one(NaN)>> ELSE [i \in 1..Len(l) |-> one(l[i])]

explode(rows) == Flatten([i \in 1..Len(rows) |-> explode_row(rows[i])])

with_clean(rows) ==
    [i \in 1..Len(rows) |->
        [city |-> rows[i].city, state |-> rows[i].state,
         sample_date |-> rows[i].sample_date, substances |-> rows[i].substances,
         sample_datetime |-> rows[i].sample_datetime,
         quarter_start |-> rows[i].quarter_start,
         city_clean |-> strip_county(normalize_text(rows[i].city)),
         state_clean |-> normalize_text(rows[i].state),
         substance_clean |-> normalize_text(rows[i].substances)]]

PrepStreetsafe ==
    /\ pc = "prep"
    /\ df' = with_clean(explode(df))
    /\ pc' = "cities"
    /\ UNCHANGED <<files, error, cities, merged, counts, top_substances,
                   sorted_substances, quarter_steps, marks, substance, q_idx,
                   all_time, fig, q_label, q_disabled, page_load, ranking>>

(***************************************************************************)
(* Lines 82-89: the gazetteer, one row per (city, state), the most         *)
(* populous first.                                                         *)
(***************************************************************************)
cities_clean(rows, has_population) ==
    [i \in 1..Len(rows) |->
        [city |-> rows[i].city, state_name |-> rows[i].state_name,
         lat |-> rows[i].lat, lng |-> rows[i].lng,
         \* without the column no row has a population
         population |-> IF has_population THEN rows[i].population ELSE NaNf,
         city_clean |-> normalize_text(rows[i].city),
         state_clean |-> normalize_text(rows[i].state_name)]]

\* sort_values("population", ascending=False): NaN last, ties in any order
population_key(rows) ==
    [r \in Range(rows) |-> IF isnaf(r.population) THEN <<1, 0>> ELSE <<0, 0 - r.population>>]

join_key(r) == <<r.city_clean, r.state_clean>>

\* a faulty variant: duplicate keys are kept
drop_duplicates_none(rows) == rows

drop_duplicates(rows) ==
    DropDuplicates(rows, [r \in Range(rows) |-> join_key(r)], {})

LoadCities ==
    /\ pc = "cities"
    /\ LET c == cities_clean(files.uscities.rows, files.uscities.has_population)
       IN  IF files.uscities.has_population
           THEN \E p \in SortOrders(c, population_key(c)) :
                    cities' = drop_duplicates(Permute(c, p))
           ELSE cities' = drop_duplicates(c)
    /\ pc' = "merge"
    /\ UNCHANGED <<files, error, df, merged, counts, top_substances,
                   sorted_substances, quarter_steps, marks, substance, q_idx,
                   all_time, fig, q_label, q_disabled, page_load, ranking>>

(***************************************************************************)
(* Lines 94-100: left join on the key, then dropna on the coordinates.     *)
(***************************************************************************)
with_coords(r, la, lo) ==
    [city |-> r.city, state |-> r.state, sample_date |-> r.sample_date,
     substances |-> r.substances, sample_datetime |-> r.sample_datetime,
     quarter_start |-> r.quarter_start, city_clean |-> r.city_clean,
     state_clean |-> r.state_clean, substance_clean |-> r.substance_clean,
     lat |-> la, lng |-> lo]

\* how="left": a left row once per matching right row, once with NaN if none
merge_row(r, right) ==
    LET m == SelectSeq(right, LAMBDA c : join_key(c) = join_key(r))
    IN  IF m = <<>> THEN <<with_coords(r, NaNf, NaNf)>>
        ELSE [i \in 1..Len(m) |-> with_coords(r, m[i].lat, m[i].lng)]

merge_left(left, right) == Flatten([i \in 1..Len(left) |-> merge_row(left[i], right)])

dropna_coords(rows) == SelectSeq(rows, LAMBDA r : ~isnaf(r.lat) /\ ~isnaf(r.lng))

MergeCoords ==
    /\ pc = "merge"
    /\ merged' = dropna_coords(merge_left(df, cities))
    /\ pc' = "rank"
    /\ UNCHANGED <<files, error, df, cities, counts, top_substances,
                   sorted_substances, quarter_steps, marks, substance, q_idx,
                   all_time, fig, q_label, q_disabled, page_load, ranking>>

(***************************************************************************)
(* Lines 105-132: the substance ranking.                                   *)
(***************************************************************************)
FORCE_INCLUDE ==
    << <<"m", "e", "d", "e", "t", "o", "m", "i", "d", "i", "n", "e">>,
       <<"n", "i", "t", "a", "z", "e", "n", "e">> >>

valid_rows(rows) ==
    SelectSeq(rows, LAMBDA r : ~isna(r.substance_clean) /\ strip(r.substance_clean) # <<>>)

\* the distinct values with their frequencies, in order of first appearance
tally(rows) ==
    LET names == DropDuplicates([i \in 1..Len(rows) |-> rows[i].substance_clean],
                                [x \in {rows[i].substance_clean : i \in 1..Len(rows)} |-> x],
                                {})
    IN  [i \in 1..Len(names) |->
            [name |-> names[i],
             n |-> Cardinality({j \in 1..Len(rows) : rows[j].substance_clean = names[i]})]]

count_key(c) == [e \in Range(c) |-> <<0 - e.n>>]

\* value_counts(): descending by count, equal counts in any order
value_counts_orders(rows) ==
    {Permute(tally(rows), p) : p \in SortOrders(tally(rows), count_key(tally(rows)))}

index(c) == [i \in 1..Len(c) |-> c[i].name]

\* counts.get(x, 0)
counts_get(c, x) ==
    IF \E i \in 1..Len(c) : c[i].name = x
    THEN c[CHOOSE i \in 1..Len(c) : c[i].name = x].n
    ELSE 0

head(s, k) == SubSeq(s, 1, IF Len(s) < k THEN Len(s) ELSE k)

\* sorted(names, key=str.lower)
lower_key(names) ==
    [x \in Range(names) |-> [i \in 1..Len(x) |-> ord(lower_char(x[i]))]]

sorted_lower(names) == StableSort(names, lower_key(names))

\* lines 116-118
RECURSIVE force_include(_, _, _)
force_include(top, c, forced) ==
    IF forced = <<>> THEN top
    ELSE LET s == Head(forced)
         IN  force_include(
                 IF s \in Range(index(c)) /\ s \notin Range(top) THEN Append(top, s) ELSE top,
                 c, Tail(forced))

\* lines 124-130: the loop over sorted_current
RECURSIVE rebuild_loop(_, _, _, _)
rebuild_loop(rest, rebuilt, k, forced_set) ==
    IF rest = <<>> THEN rebuilt
    ELSE LET s == Head(rest)
             r == IF (s \in forced_set \/ Len(rebuilt) < k) /\ s \notin Range(rebuilt)
                  THEN Append(rebuilt, s)
                  ELSE rebuilt
         IN  IF Len(r) = k /\ forced_set \subseteq Range(r)
             THEN r
             ELSE rebuild_loop(Tail(rest), r, k, forced_set)

\* lines 120-132
rebuild(top, c, k, forced) ==
    IF Len(top) > k
    THEN LET sorted_current ==
                 StableSort(top, [x \in Range(top) |-> <<0 - counts_get(c, x)>>])
         IN  rebuild_loop(sorted_current, <<>>, k, Range(forced))
    ELSE top

\* lines 113-132, from the value_counts() result c
rank_substances(c, k, forced) == rebuild(force_include(head(index(c), k), c, forced), c, k, forced)

RankSubstances ==
    /\ pc = "rank"
    /\ \E c \in value_counts_orders(valid_rows(merged)) :
          /\ counts' = c
          /\ sorted_substances' = sorted_lower(head(index(c), TOP_N_SUBSTANCES))
          /\ top_substances' = rank_substances(c, TOP_N_SUBSTANCES, FORCE_INCLUDE)
    /\ pc' = "quarters"
    /\ UNCHANGED <<files, error, df, cities, merged, quarter_steps, marks, substance,
                   q_idx, all_time, fig, q_label, q_disabled, page_load, ranking>>

(***************************************************************************)
(* Lines 137-157: the quarter axis and the slider marks.                   *)
(***************************************************************************)
\* a faulty variant: the month of the quarter's end instead of its start
is_2026_q4_end_month(q) == q.year = 2026 /\ q.month = 12

is_2026_q4(q) == q.year = 2026 /\ q.month = 10

sorted_unique_quarters(rows) ==
    LET qs == SelectSeq([i \in 1..Len(rows) |-> rows[i].quarter_start],
                        LAMBDA q : ~isnat(q))
        sorted == StableSort(qs, [q \in Range(qs) |-> ts_key(q)])
    IN  DropDuplicates(sorted, [q \in Range(qs) |-> q], {})

build_quarter_steps(rows) ==
    SelectSeq(sorted_unique_quarters(rows), LAMBDA q : ~is_2026_q4(q))

\* the marks dictionary, keyed by slider position (0-based)
build_marks(steps) ==
    [i \in {0, Len(steps) - 1} \cup {j \in 0..Len(steps) - 1 : steps[j + 1].month = 1}
        |-> quarter_label(steps[i + 1])]

QuarterSteps ==
    /\ pc = "quarters"
    /\ quarter_steps' = build_quarter_steps(merged)
    /\ IF quarter_steps' = <<>>
       THEN /\ error' = "ValueError"
            /\ pc' = "fatal"
            /\ marks' = marks
       ELSE /\ marks' = build_marks(quarter_steps')
            /\ pc' = "layout"
            /\ error' = error
    /\ UNCHANGED <<files, df, cities, merged, counts, top_substances,
                   sorted_substances, substance, q_idx, all_time, fig, q_label,
                   q_disabled, page_load, ranking>>

(***************************************************************************)
(* Lines 162-253: the layout; the initial values of the three widgets.     *)
(***************************************************************************)
max(a, b) == IF a > b THEN a ELSE b

dropdown_options == sorted_substances

Layout ==
    /\ pc = "layout"
    /\ substance' = IF sorted_substances # <<>> THEN sorted_substances[1] ELSE None
    /\ q_idx' = max(Len(quarter_steps) - 1, 0)
    /\ all_time' = <<"all">>
    /\ pc' = "serve"
    /\ UNCHANGED <<files, error, df, cities, merged, counts, top_substances,
                   sorted_substances, quarter_steps, marks, fig, q_label,
                   q_disabled, page_load, ranking>>

(***************************************************************************)
(* Lines 263-308: update_map.                                              *)
(***************************************************************************)
truthy(s) == s # None /\ s # <<>>

show_all_of(all_time_values) ==
    "all" \in Range(IF all_time_values = None THEN <<>> ELSE all_time_values)

\* selected_q; None is written NaT
selected_q_of(steps, i) == IF steps # <<>> THEN steps[i + 1] ELSE NaT

\* a faulty variant: the quarter filter is applied also when show-all is set
filter_rows_quarter_always(rows, steps, s, i, show_all) ==
    LET sub_df == IF truthy(s)
                  THEN SelectSeq(rows, LAMBDA r : r.substance_clean = s)
                  ELSE rows
        selected_q == selected_q_of(steps, i)
    IN  IF ~isnat(selected_q)
        THEN SelectSeq(sub_df, LAMBDA r : r.quarter_start = selected_q)
        ELSE sub_df

\* a faulty variant: an empty selection falls back to the whole dataset
filter_rows_fallback(rows, steps, s, i, show_all) ==
    LET sub_df == IF truthy(s)
                  THEN SelectSeq(rows, LAMBDA r : r.substance_clean = s)
                  ELSE rows
        selected_q == selected_q_of(steps, i)
        out == IF ~show_all /\ ~isnat(selected_q)
               THEN SelectSeq(sub_df, LAMBDA r : r.quarter_start = selected_q)
               ELSE sub_df
    IN  IF out = <<>> THEN rows ELSE out

\* a faulty variant: show-all keeps only the rows of the quarters on the axis
filter_rows_axis_only(rows, steps, s, i, show_all) ==
    LET sub_df == IF truthy(s)
                  THEN SelectSeq(rows, LAMBDA r : r.substance_clean = s)
                  ELSE rows
        selected_q == selected_q_of(steps, i)
    IN  IF ~show_all /\ ~isnat(selected_q)
        THEN SelectSeq(sub_df, LAMBDA r : r.quarter_start = selected_q)
        ELSE SelectSeq(sub_df, LAMBDA r : r.quarter_start \in Range(steps))

filter_rows(rows, steps, s, i, show_all) ==
    LET sub_df == IF truthy(s)
                  THEN SelectSeq(rows, LAMBDA r : r.substance_clean = s)
                  ELSE rows
        selected_q == selected_q_of(steps, i)
    IN  IF ~show_all /\ ~isnat(selected_q)
        THEN SelectSeq(sub_df, LAMBDA r : r.quarter_start = selected_q)
        ELSE sub_df

\* groupby(["lat", "lng"], as_index=False).size(): one row per key, keys ascending,
\* rows with a missing key left out
groupby_size(rows) ==
    LET keyed == SelectSeq(rows, LAMBDA r : ~isnaf(r.lat) /\ ~isnaf(r.lng))
        pts == [i \in 1..Len(keyed) |-> <<keyed[i].lat, keyed[i].lng>>]
        keys == DropDuplicates(StableSort(pts, [p \in Range(pts) |-> p]),
                               [p \in Range(pts) |-> p], {})
    IN  [i \in 1..Len(keys) |->
            [lat |-> keys[i][1], lng |-> keys[i][2],
             count |-> Cardinality({j \in 1..Len(keyed) : pts[j] = keys[i]})]]

densitymap(agg, s) ==
    [lat |-> IF Len(agg) # 0 THEN [i \in 1..Len(agg) |-> agg[i].lat] ELSE <<>>,
     lon |-> IF Len(agg) # 0 THEN [i \in 1..Len(agg) |-> agg[i].lng] ELSE <<>>,
     z |-> IF Len(agg) # 0 THEN [i \in 1..Len(agg) |-> agg[i].count] ELSE <<>>,
     radius |-> RADIUS,
     name |-> IF truthy(s) THEN str(s) ELSE ""]

label_of(steps, s, i, show_all) ==
    IF show_all \/ isnat(selected_q_of(steps, i))
    THEN "Quarter: All samples | Substance: " \o str(s)
    ELSE "Quarter: " \o quarter_label(selected_q_of(steps, i)) \o " | Substance: " \o str(s)

\* the three return values
update_map(rows, steps, s, i, all_time_values) ==
    LET show_all == show_all_of(all_time_values)
        agg == groupby_size(filter_rows(rows, steps, s, i, show_all))
    IN  <<densitymap(agg, s), label_of(steps, s, i, show_all), show_all>>

\* a faulty variant: the callback filters the shared dataset in place
Callback_inplace(s, i, a) ==
    LET out == update_map(merged, quarter_steps, s, i, a)
    IN  /\ substance' = s
        /\ q_idx' = i
        /\ all_time' = a
        /\ fig' = out[1]
        /\ q_label' = out[2]
        /\ q_disabled' = out[3]
        /\ merged' = filter_rows(merged, quarter_steps, s, i, show_all_of(a))
        /\ UNCHANGED <<files, error, df, cities, counts, top_substances,
                       sorted_substances, quarter_steps, marks, ranking>>

\* a widget reports (s, i, a); the callback runs and its outputs are rendered
Callback(s, i, a) ==
    LET out == update_map(merged, quarter_steps, s, i, a)
    IN  /\ substance' = s
        /\ q_idx' = i
        /\ all_time' = a
        /\ fig' = out[1]
        /\ q_label' = out[2]
        /\ q_disabled' = out[3]
        /\ UNCHANGED <<files, error, df, cities, merged, counts, top_substances,
                       sorted_substances, quarter_steps, marks, ranking>>

\* the browser loads the page: the callback runs on the layout's values
PageLoad ==
    /\ pc = "serve"
    /\ Callback(substance, q_idx, all_time)
    /\ page_load' = [loaded |-> TRUE, others |-> FALSE, substance |-> substance,
                     q_idx |-> q_idx, all_time |-> all_time, fig |-> fig',
                     q_label |-> q_label', q_disabled |-> q_disabled']
    /\ pc' = "ready"

\* page_load.others: a callback with other inputs than the first has run since
NoteCall ==
    page_load' = [page_load EXCEPT !.others =
                     @ \/ <<substance', q_idx', all_time'>>
                            # <<page_load.substance, page_load.q_idx, page_load.all_time>>]

\* the values the substance input takes: an option of the dropdown, a
\* forced-inclusion name, or nothing
SubstanceInputs == Range(dropdown_options) \cup Range(FORCE_INCLUDE) \cup {None}

ChangeSubstance ==
    /\ pc = "ready"
    /\ \E s \in SubstanceInputs : Callback(s, q_idx, all_time)
    /\ NoteCall
    /\ UNCHANGED pc

ChangeQuarter ==
    /\ pc = "ready"
    /\ ~q_disabled
    /\ \E i \in 0..max(Len(quarter_steps) - 1, 0) : Callback(substance, i, all_time)
    /\ NoteCall
    /\ UNCHANGED pc

ChangeAllTime ==
    /\ pc = "ready"
    /\ \E a \in {<<"all">>, <<>>} : Callback(substance, q_idx, a)
    /\ NoteCall
    /\ UNCHANGED pc

Next ==
    \/ LoadStreetsafe
    \/ PrepStreetsafe
    \/ LoadCities
    \/ MergeCoords
    \/ RankSubstances
    \/ QuarterSteps
    \/ Layout
    \/ PageLoad
    \/ ChangeSubstance
    \/ ChangeQuarter
    \/ ChangeAllTime

Spec == Init /\ [][Next]_vars

(***************************************************************************)
(* The ranking routine on its own: counts, K and the forced-inclusion list *)
(* are drawn, rank_substances is applied.                                  *)
(***************************************************************************)
Names == {<<"a">>, <<"b">>, <<"z">>}
Absent == <<"q">>
NameOrder == << <<"a">>, <<"b">>, <<"z">> >>

\* the value_counts() results over Names with counts up to MaxCount
CountTables ==
    UNION { LET present == SelectSeq(NameOrder, LAMBDA x : f[x] > 0)
                base == [i \in 1..Len(present) |-> [name |-> present[i], n |-> f[present[i]]]]
            IN  {Permute(base, p) : p \in SortOrders(base, count_key(base))}
            : f \in [Names -> 0..MaxCount] }

ForcedLists == SeqsUpTo(Names \cup {Absent}, 2)

InitRank ==
    /\ files = [has_sample_date |-> TRUE, streetsafe |-> <<>>,
                uscities |-> [has_population |-> FALSE, rows |-> <<>>]]
    /\ pc = "off"
    /\ Unset
    /\ ranking \in [pc : {"in"}, counts : CountTables, K : 1..MaxK,
                    forced : ForcedLists, out : {<<>>}]

ApplyRanking ==
    /\ ranking.pc = "in"
    /\ ranking' = [ranking EXCEPT
                      !.pc = "done",
                      !.out = rank_substances(ranking.counts, ranking.K, ranking.forced)]
    /\ UNCHANGED <<files, pc, error, df, cities, merged, counts, top_substances,
                   sorted_substances, quarter_steps, marks, substance, q_idx,
                   all_time, fig, q_label, q_disabled, page_load>>

NextRank == ApplyRanking

SpecRank == InitRank /\ [][NextRank]_vars

(***************************************************************************)
(* Properties.                                                             *)
(***************************************************************************)
ShowAll == "all" \in Range(all_time)

\* the rows of merged the current filter (substance, q_idx, all_time) selects
Matching ==
    {j \in 1..Len(merged) :
        /\ substance = None \/ merged[j].substance_clean = substance
        /\ ShowAll \/ merged[j].quarter_start = quarter_steps[q_idx + 1]}

Q4_2026 == Timestamp(2026, 10, 1)

\* C1: for every frequency table, K >= 1 and forced-inclusion list, the ranking's
\* output has at most K entries and holds every forced entry that occurs in the
\* counts (counts a:3, b:2, z:1 with K = 2 and forced = <<z>> give 2 entries, z among
\* them).  Stated where both can hold: at most K forced entries occur in the counts.
C1_RankingCapped ==
    (/\ ranking.pc = "done"
     /\ Cardinality(Range(ranking.forced) \cap Range(index(ranking.counts))) <= ranking.K) =>
        /\ Len(ranking.out) <= ranking.K
        /\ \A s \in Range(ranking.forced) :
              s \in Range(index(ranking.counts)) => s \in Range(ranking.out)

\* C2: the dropdown offers the final ranking output in case-insensitive alphabetical
\* order, so every forced-inclusion substance that occurs in the data is selectable,
\* also when it is not among the K most frequent.
C2_ForcedSelectable ==
    pc \in {"serve", "ready"} =>
        /\ dropdown_options = sorted_lower(top_substances)
        /\ \A s \in Range(FORCE_INCLUDE) :
              s \in Range(index(counts)) => s \in Range(dropdown_options)

\* C3: every row the aggregator reads, whatever the filter, has non-null latitude and
\* longitude and a non-empty normalized substance.
C3_AggregatorRows ==
    pc = "ready" =>
        \A j \in Matching :
            /\ merged[j].lat # NaNf
            /\ merged[j].lng # NaNf
            /\ merged[j].substance_clean # <<>>

\* C4: the aggregate update_map returned is the per-(lat, lng) count of exactly the rows
\* with (substance unset or equal) and (show-all set or quarter_start = axis[q_idx]).
C4_Aggregate ==
    pc = "ready" =>
        LET pt(j) == <<merged[j].lat, merged[j].lng>>
            n == Len(fig.lat)
        IN  /\ Len(fig.lon) = n /\ Len(fig.z) = n
            /\ n = Cardinality({pt(j) : j \in Matching})
            /\ \A k \in 1..n :
                  /\ fig.z[k] = Cardinality({j \in Matching : pt(j) = <<fig.lat[k], fig.lon[k]>>})
                  /\ fig.z[k] > 0

\* a matching row of another quarter than the slider's is counted while show-all is set
C4_Witness ==
    /\ pc = "ready"
    /\ ShowAll
    /\ q_idx = 0
    /\ Len(quarter_steps) > 1
    /\ substance = None
    /\ \E j \in Matching : merged[j].quarter_start # quarter_steps[1]
    /\ \E j, k \in Matching : merged[j].substance_clean # merged[k].substance_clean

\* C5: a filter matching no row gives an empty aggregate, a status label and the
\* disabled flag.
C5_EmptyAggregate ==
    (pc = "ready" /\ Matching = {}) =>
        /\ fig.lat = <<>> /\ fig.lon = <<>> /\ fig.z = <<>>
        /\ q_label # ""
        /\ q_disabled \in BOOLEAN
        /\ error = "none"

\* the dataset has rows, the filter matches none of them
C5_Witness ==
    /\ pc = "ready"
    /\ merged # <<>>
    /\ Matching = {}
    /\ substance # None
    /\ page_load.others

\* C6: no callback changes the dataset, the gazetteer, the axis or the substance list,
\* and a callback on the inputs of the first one returns what the first one returned,
\* whatever ran in between.
C6_Frame ==
    [][pc = "ready" =>
          /\ <<merged, df, cities, quarter_steps, marks, counts, top_substances,
               sorted_substances>>' =
             <<merged, df, cities, quarter_steps, marks, counts, top_substances,
               sorted_substances>>
          /\ <<substance', q_idx', all_time'>> =
                 <<page_load.substance, page_load.q_idx, page_load.all_time>>
             => <<fig', q_label', q_disabled'>> =
                    <<page_load.fig, page_load.q_label, page_load.q_disabled>>]_vars

\* the first call's inputs again, after calls with other inputs
C6_Witness ==
    /\ pc = "ready"
    /\ page_load.others
    /\ <<substance, q_idx, all_time>> =
           <<page_load.substance, page_load.q_idx, page_load.all_time>>
    /\ fig.z # <<>>

\* C7: startup aborts or yields an axis that is non-empty, strictly ascending, made of
\* quarters of the joined data and free of 2026 Q4; the empty-axis error is raised
\* exactly when the joined data has no quarter other than 2026 Q4.
C7_QuarterAxis ==
    LET past == pc \in {"layout", "serve", "ready"} \/ (pc = "fatal" /\ error # "KeyError")
        axis == quarter_steps
    IN  /\ pc \in {"layout", "serve", "ready"} =>
              /\ axis # <<>>
              /\ \A i \in 1..Len(axis) - 1 : LexLess(ts_key(axis[i]), ts_key(axis[i + 1]))
              /\ \A i \in 1..Len(axis) :
                    /\ axis[i] # Q4_2026
                    /\ \E j \in 1..Len(merged) : merged[j].quarter_start = axis[i]
        /\ past => (error = "ValueError"
                      <=> \A j \in 1..Len(merged) : merged[j].quarter_start = Q4_2026)
        /\ error # "none" <=> pc = "fatal"

\* a dataset whose joined rows are all of 2026 Q4 aborts
C7_Witness ==
    /\ pc = "fatal"
    /\ error = "ValueError"
    /\ merged # <<>>

without_coords(r) ==
    [city |-> r.city, state |-> r.state, sample_date |-> r.sample_date,
     substances |-> r.substances, sample_datetime |-> r.sample_datetime,
     quarter_start |-> r.quarter_start, city_clean |-> r.city_clean,
     state_clean |-> r.state_clean, substance_clean |-> r.substance_clean]

Joined == pc \in {"rank", "quarters", "layout", "serve", "ready"} \/ (pc = "fatal" /\ error = "ValueError")

\* C8 as stated: the join output is exactly the sample rows whose key has a gazetteer
\* entry, each once; the row count drops by exactly the number of unmatched rows.
C8_Original ==
    Joined =>
        LET has_entry(r) == \E i \in 1..Len(cities) : join_key(cities[i]) = join_key(r)
        IN  /\ [i \in 1..Len(merged) |-> without_coords(merged[i])] = SelectSeq(df, has_entry)
            /\ Len(merged) = Len(df) - Cardinality({i \in 1..Len(df) : ~has_entry(df[i])})

\* C8 amended: the join output is exactly the sample rows whose key has a gazetteer
\* entry with non-null latitude and longitude, each once and with that entry's
\* coordinates; the row count drops by exactly the number of the other rows.
C8_GeoJoin ==
    Joined =>
        LET located(r) == {i \in 1..Len(cities) :
                              /\ join_key(cities[i]) = join_key(r)
                              /\ cities[i].lat # NaNf /\ cities[i].lng # NaNf}
            has_coords(r) == located(r) # {}
        IN  /\ [i \in 1..Len(merged) |-> without_coords(merged[i])] = SelectSeq(df, has_coords)
            /\ Len(merged) = Len(df) - Cardinality({i \in 1..Len(df) : ~has_coords(df[i])})
            /\ \A i \in 1..Len(merged) :
                  \E c \in located(merged[i]) :
                      merged[i].lat = cities[c].lat /\ merged[i].lng = cities[c].lng

\* a duplicated gazetteer key matched, another row dropped
C8_Witness ==
    /\ Joined
    /\ merged # <<>>
    /\ Len(merged) < Len(df)
    /\ Len(cities) < Len(files.uscities.rows)

\* C9: the quarter control is disabled exactly when show-all is set, the label names
\* "<year> Q<n>" of axis[q_idx] or "All samples", then the substance; the page loads
\* with show-all set and the control disabled.
C9_Status ==
    pc = "ready" =>
        LET q == quarter_steps[q_idx + 1]
            n == CHOOSE k \in 1..4 : q.month \in {3 * k - 2, 3 * k - 1, 3 * k}
            quarter == IF ShowAll THEN "All samples" ELSE ToString(q.year) \o " Q" \o ToString(n)
        IN  /\ q_disabled = ShowAll
            /\ q_label = "Quarter: " \o quarter \o " | Substance: " \o str(substance)
            /\ page_load.all_time = <<"all">>
            /\ page_load.q_disabled

C9_Witness ==
    /\ pc = "ready"
    /\ ~q_disabled
    /\ q_label = "Quarter: 2026 Q3 | Substance: fentanyl"

\* C10: 2026 Q4 is missing from the axis, not from the dataset: its rows are in no
\* per-quarter aggregate and in the show-all aggregate, whose total is the sum of the
\* per-quarter totals plus the matching 2026 Q4 rows.
C10_ExcludedQuarter ==
    pc = "ready" =>
        LET rows(P(_)) == {j \in 1..Len(merged) :
                              /\ substance = None \/ merged[j].substance_clean = substance
                              /\ P(merged[j].quarter_start)}
            total(i, a) == SumSeq(update_map(merged, quarter_steps, substance, i, a)[1].z)
            per_quarter == [i \in 1..Len(quarter_steps) |-> total(i - 1, <<>>)]
        IN  /\ \A i \in 1..Len(quarter_steps) :
                  per_quarter[i] = Cardinality(rows(LAMBDA q : q = quarter_steps[i]))
            /\ \A i \in 0..Len(quarter_steps) - 1 :
                  total(i, <<"all">>) =
                      SumSeq(per_quarter) + Cardinality(rows(LAMBDA q : q = Q4_2026))
            /\ SumSeq(fig.z) = IF ShowAll THEN total(q_idx, <<"all">>) ELSE per_quarter[q_idx + 1]

\* show-all counts a 2026 Q4 row next to rows of the axis' quarters
C10_Witness ==
    /\ pc = "ready"
    /\ ShowAll
    /\ substance # None
    /\ \E j \in Matching : merged[j].quarter_start = Q4_2026
    /\ \E j \in Matching : merged[j].quarter_start # Q4_2026

====
